---- MODULE Spec2Model ----
(***************************************************************************)
(* Model of user_list_matcher.py: the file readers (read_file, _read_csv,  *)
(* _read_xlsx) and the handlers of the UserListMatcher window (_load_full, *)
(* _load_masked, _add_mapping_row, _remove_row, _refresh_mapping_combos,  *)
(* _run), with the operator's combobox and radio-button selections.        *)
(*                                                                         *)
(* A Python str is a sequence of characters, each character a one-element  *)
(* TLA+ string.  The two CJK characters of the literals "_补全" and        *)
(* "（新增列）" are written with ASCII tokens ("bu", "quan", "NEW").        *)
(* A row (a Python dict) is a function from column names to cell values.   *)
(***************************************************************************)
EXTENDS Integers, Sequences, FiniteSets, TLC

VARIABLES
    full_headers,     \* self.full_headers
    full_rows,        \* self.full_rows
    masked_headers,   \* self.masked_headers
    masked_rows,      \* self.masked_rows
    mapping_rows,     \* self.mapping_rows
    full_key_var,     \* self.full_key_var
    masked_key_var,   \* self.masked_key_var
    full_key_cb,      \* self.full_key_cb["values"]
    masked_key_cb,    \* self.masked_key_cb["values"]
    selections,       \* number of selections the operator has made in the widgets
    out               \* what the last handler call showed and computed

vars == <<full_headers, full_rows, masked_headers, masked_rows, mapping_rows,
          full_key_var, masked_key_var, full_key_cb, masked_key_cb,
          selections, out>>

\* Bounds of the model.
MaxMappingRows == 2
MaxSelections == 3

(***************************************************************************)
(* Strings                                                                 *)
(***************************************************************************)
EmptyStr == <<>>

RECURSIVE lstrip(_)
lstrip(s) ==
    IF s # <<>> /\ Head(s) = " " THEN lstrip(Tail(s)) ELSE s

RECURSIVE rstrip(_)
rstrip(s) ==
    IF s # <<>> /\ s[Len(s)] = " " THEN rstrip(SubSeq(s, 1, Len(s) - 1)) ELSE s

\* str.strip()
strip(s) == rstrip(lstrip(s))

Digit(d) == CASE d = 0 -> "0" [] d = 1 -> "1" [] d = 2 -> "2" [] d = 3 -> "3"
              [] d = 4 -> "4" [] d = 5 -> "5" [] d = 6 -> "6" [] d = 7 -> "7"
              [] d = 8 -> "8" [] d = 9 -> "9"

\* the decimal rendering of a non-negative int inside an f-string
RECURSIVE IntToStr(_)
IntToStr(n) ==
    IF n < 10 THEN <<Digit(n)>> ELSE IntToStr(n \div 10) \o <<Digit(n % 10)>>

\* f"{base}_补全{suffix}"
Suffixed(base, suffix) == base \o <<"_", "bu", "quan">> \o IntToStr(suffix)

\* "（新增列）", the destination that asks for a new column
NewColumn == <<"NEW">>

\* x in list
InList(x, list) == \E i \in 1..Len(list) : list[i] = x

\* dict.get(key, default)
Get(row, key, default) == IF key \in DOMAIN row THEN row[key] ELSE default

(***************************************************************************)
(* The files of the operator's disk                                        *)
(***************************************************************************)
ID == <<"i", "d">>
SpID == <<" ", "i", "d">>
UID == <<"u", "i", "d">>
N == <<"n">>
D == <<"d">>

Row2(h, a, b) == (h[1] :> a) @@ (h[2] :> b)

FullAHeaders == <<ID, N>>
FullBHeaders == <<SpID, ID>>
MaskedAHeaders == <<UID, D>>
MaskedBHeaders == <<N, Suffixed(N, 1)>>

\* keys "1" and " 1 " are equal once trimmed, " " is empty once trimmed
FullA ==
    [headers |-> FullAHeaders,
     rows |-> << Row2(FullAHeaders, <<"1">>, <<"A">>),
                 Row2(FullAHeaders, <<" ", "1", " ">>, <<"B">>),
                 Row2(FullAHeaders, <<" ">>, <<"C">>),
                 Row2(FullAHeaders, <<"a">>, <<"D">>) >>]

\* a header with a leading blank, as a CSV header line "x, id" gives
FullB ==
    [headers |-> FullBHeaders,
     rows |-> << Row2(FullBHeaders, <<"1">>, <<"2">>),
                 Row2(FullBHeaders, <<"2">>, <<>>) >>]

MaskedA ==
    [headers |-> MaskedAHeaders,
     rows |-> << Row2(MaskedAHeaders, <<"1", " ">>, <<"s">>),
                 Row2(MaskedAHeaders, <<>>, <<"t">>),
                 Row2(MaskedAHeaders, <<"A">>, <<"u">>) >>]

MaskedB ==
    [headers |-> MaskedBHeaders,
     rows |-> << Row2(MaskedBHeaders, <<"2">>, <<"w">>),
                 Row2(MaskedBHeaders, <<" ", "1">>, <<"y">>) >>]

\* what a file in a Chinese code page reads as under latin-1
Garbled == [headers |-> << <<"?">> >>, rows |-> <<>>]

\* the candidate encodings of _read_csv, in the order they are tried
Encodings == <<"utf-8-sig", "utf-8", "gbk", "gb2312", "latin-1">>

\* A file: its extension, whether open() succeeds, and what it holds.  A .csv
\* file holds, for each encoding that decodes its bytes, the table read under
\* that encoding (latin-1 decodes every byte sequence); a workbook holds the
\* table of its active sheet.
Files ==
    [full_a    |-> [ext |-> ".csv", readable |-> TRUE,
                    text |-> ("utf-8-sig" :> FullA) @@ ("utf-8" :> FullA)
                             @@ ("latin-1" :> Garbled)],
     full_b    |-> [ext |-> ".xlsx", readable |-> TRUE, sheet |-> FullB],
     masked_a  |-> [ext |-> ".csv", readable |-> TRUE,
                    text |-> ("gbk" :> MaskedA) @@ ("gb2312" :> MaskedA)
                             @@ ("latin-1" :> Garbled)],
     masked_b  |-> [ext |-> ".xlsx", readable |-> TRUE, sheet |-> MaskedB],
     gone_csv  |-> [ext |-> ".csv", readable |-> FALSE],
     gone_xlsx |-> [ext |-> ".xlsx", readable |-> FALSE],
     notes     |-> [ext |-> ".txt", readable |-> TRUE]]

BadPaths == {"gone_csv", "gone_xlsx", "notes"}
FullPaths == {"full_a", "full_b"} \cup BadPaths
MaskedPaths == {"masked_a", "masked_b"} \cup BadPaths

OSError == "OSError"
EncodingValueError == "ValueError: cannot recognise the CSV encoding"
FormatValueError == "ValueError: unsupported file format"

Raised(e) == [ok |-> FALSE, error |-> e]
Returned(t) == [ok |-> TRUE, headers |-> t.headers, rows |-> t.rows]

\* the for loop of _read_csv from candidate i on: every exception of the try
\* block, the one of open() included, moves on to the next candidate
RECURSIVE TryEncodings(_, _)
TryEncodings(f, i) ==
    IF i > Len(Encodings) THEN Raised(EncodingValueError)
    ELSE IF ~f.readable THEN TryEncodings(f, i + 1)
    ELSE IF Encodings[i] \notin DOMAIN f.text THEN TryEncodings(f, i + 1)
    ELSE Returned(f.text[Encodings[i]])

read_csv(f) == TryEncodings(f, 1)

\* load_workbook raises on a missing or unreadable path; the headers are the
\* first row of the active sheet and the rows follow it.  (Without openpyxl
\* installed the function returns two empty lists, as an empty sheet does;
\* _run then stops at its first test.)
read_xlsx(f) == IF ~f.readable THEN Raised(OSError) ELSE Returned(f.sheet)

read_file(path) ==
    LET f == Files[path] IN
    IF f.ext = ".csv" THEN read_csv(f)
    ELSE IF f.ext \in {".xlsx", ".xls", ".xlsm"} THEN read_xlsx(f)
    ELSE Raised(FormatValueError)

(***************************************************************************)
(* The window                                                              *)
(***************************************************************************)
Idle == [kind |-> "idle"]

Init ==
    /\ full_headers = <<>>
    /\ full_rows = <<>>
    /\ masked_headers = <<>>
    /\ masked_rows = <<>>
    /\ mapping_rows = <<>>
    /\ full_key_var = EmptyStr
    /\ masked_key_var = EmptyStr
    /\ full_key_cb = <<>>
    /\ masked_key_cb = <<>>
    /\ selections = 0
    /\ out = Idle

\* _refresh_mapping_combos: the value lists of the active rows' comboboxes
\* are replaced; the StringVars holding the selections are not touched
refresh_mapping_combos(rows, fh, mh) ==
    LET masked_vals == <<NewColumn>> \o mh IN
    [i \in 1..Len(rows) |->
        IF ~rows[i].active THEN rows[i]
        ELSE [rows[i] EXCEPT !.full_cb = fh, !.masked_cb = masked_vals]]

\* Combobox.current(0) when the header list is not empty
Current0(headers, var) == IF headers # <<>> THEN headers[1] ELSE var

load_full ==
    \E path \in FullPaths \cup {""} :
        IF path = "" THEN
            /\ out' = Idle
            /\ UNCHANGED <<full_headers, full_rows, masked_headers, masked_rows,
                           mapping_rows, full_key_var, masked_key_var,
                           full_key_cb, masked_key_cb, selections>>
        ELSE LET r == read_file(path) IN
            IF ~r.ok THEN
                /\ out' = [kind |-> "read_failed", path |-> path, error |-> r.error]
                /\ UNCHANGED <<full_headers, full_rows, masked_headers, masked_rows,
                               mapping_rows, full_key_var, masked_key_var,
                               full_key_cb, masked_key_cb, selections>>
            ELSE
                /\ full_headers' = r.headers
                /\ full_rows' = r.rows
                /\ full_key_cb' = r.headers
                /\ full_key_var' = Current0(r.headers, full_key_var)
                /\ mapping_rows' =
                       refresh_mapping_combos(mapping_rows, r.headers, masked_headers)
                /\ out' = Idle
                /\ UNCHANGED <<masked_headers, masked_rows, masked_key_var,
                               masked_key_cb, selections>>

load_masked ==
    \E path \in MaskedPaths \cup {""} :
        IF path = "" THEN
            /\ out' = Idle
            /\ UNCHANGED <<full_headers, full_rows, masked_headers, masked_rows,
                           mapping_rows, full_key_var, masked_key_var,
                           full_key_cb, masked_key_cb, selections>>
        ELSE LET r == read_file(path) IN
            IF ~r.ok THEN
                /\ out' = [kind |-> "read_failed", path |-> path, error |-> r.error]
                /\ UNCHANGED <<full_headers, full_rows, masked_headers, masked_rows,
                               mapping_rows, full_key_var, masked_key_var,
                               full_key_cb, masked_key_cb, selections>>
            ELSE
                /\ masked_headers' = r.headers
                /\ masked_rows' = r.rows
                /\ masked_key_cb' = r.headers
                /\ masked_key_var' = Current0(r.headers, masked_key_var)
                /\ mapping_rows' =
                       refresh_mapping_combos(mapping_rows, full_headers, r.headers)
                /\ out' = Idle
                /\ UNCHANGED <<full_headers, full_rows, full_key_var,
                               full_key_cb, selections>>

add_mapping_row ==
    /\ Len(mapping_rows) < MaxMappingRows
    /\ mapping_rows' = Append(mapping_rows,
           [active |-> TRUE,
            full_var |-> Current0(full_headers, EmptyStr),
            masked_var |-> NewColumn,
            mode_var |-> "overwrite",
            full_cb |-> full_headers,
            masked_cb |-> <<NewColumn>> \o masked_headers])
    /\ out' = Idle
    /\ UNCHANGED <<full_headers, full_rows, masked_headers, masked_rows,
                   full_key_var, masked_key_var, full_key_cb, masked_key_cb,
                   selections>>

\* frame.destroy() destroys the row's widgets, its remove button included, so a
\* row is removed once; nothing reads the other fields of its record again,
\* and the model keeps only the flag
Removed == [active |-> FALSE]

remove_row ==
    \E idx \in 1..Len(mapping_rows) :
        /\ mapping_rows[idx].active
        /\ mapping_rows' = [mapping_rows EXCEPT ![idx] = Removed]
        /\ out' = Idle
        /\ UNCHANGED <<full_headers, full_rows, masked_headers, masked_rows,
                       full_key_var, masked_key_var, full_key_cb, masked_key_cb,
                       selections>>

\* The operator picks an entry of a read-only combobox or a radio button.
SelectFullKey ==
    \E i \in 1..Len(full_key_cb) :
        /\ selections < MaxSelections
        /\ full_key_cb[i] # full_key_var
        /\ full_key_var' = full_key_cb[i]
        /\ selections' = selections + 1
        /\ out' = Idle
        /\ UNCHANGED <<full_headers, full_rows, masked_headers, masked_rows,
                       mapping_rows, masked_key_var, full_key_cb, masked_key_cb>>

SelectMaskedKey ==
    \E i \in 1..Len(masked_key_cb) :
        /\ selections < MaxSelections
        /\ masked_key_cb[i] # masked_key_var
        /\ masked_key_var' = masked_key_cb[i]
        /\ selections' = selections + 1
        /\ out' = Idle
        /\ UNCHANGED <<full_headers, full_rows, masked_headers, masked_rows,
                       mapping_rows, full_key_var, full_key_cb, masked_key_cb>>

SelectSource ==
    \E idx \in 1..Len(mapping_rows) :
        /\ mapping_rows[idx].active
        /\ \E i \in 1..Len(mapping_rows[idx].full_cb) :
            /\ selections < MaxSelections
            /\ mapping_rows[idx].full_cb[i] # mapping_rows[idx].full_var
            /\ mapping_rows' =
                   [mapping_rows EXCEPT ![idx].full_var = mapping_rows[idx].full_cb[i]]
            /\ selections' = selections + 1
            /\ out' = Idle
            /\ UNCHANGED <<full_headers, full_rows, masked_headers, masked_rows,
                           full_key_var, masked_key_var, full_key_cb, masked_key_cb>>

SelectDestination ==
    \E idx \in 1..Len(mapping_rows) :
        /\ mapping_rows[idx].active
        /\ \E i \in 1..Len(mapping_rows[idx].masked_cb) :
            /\ selections < MaxSelections
            /\ mapping_rows[idx].masked_cb[i] # mapping_rows[idx].masked_var
            /\ mapping_rows' =
                   [mapping_rows EXCEPT ![idx].masked_var = mapping_rows[idx].masked_cb[i]]
            /\ selections' = selections + 1
            /\ out' = Idle
            /\ UNCHANGED <<full_headers, full_rows, masked_headers, masked_rows,
                           full_key_var, masked_key_var, full_key_cb, masked_key_cb>>

SelectMode ==
    \E idx \in 1..Len(mapping_rows) :
        /\ mapping_rows[idx].active
        /\ \E mode \in {"overwrite", "append"} :
            /\ selections < MaxSelections
            /\ mode # mapping_rows[idx].mode_var
            /\ mapping_rows' = [mapping_rows EXCEPT ![idx].mode_var = mode]
            /\ selections' = selections + 1
            /\ out' = Idle
            /\ UNCHANGED <<full_headers, full_rows, masked_headers, masked_rows,
                           full_key_var, masked_key_var, full_key_cb, masked_key_cb>>

(***************************************************************************)
(* _run                                                                    *)
(***************************************************************************)
\* the result of dict.get(key): a row, or None
None == [some |-> FALSE]
Some(row) == [some |-> TRUE, row |-> row]

\* the truth value of "if src:": None and the empty dict are false
Truthy(src) == src.some /\ DOMAIN src.row # {}

\* build_lookup without the "if k:" test: rows with an empty key are entered too
RECURSIVE build_lookup_empty_keys(_, _, _, _)
build_lookup_empty_keys(rows, full_key, i, lookup) ==
    IF i > Len(rows) THEN lookup
    ELSE LET k == strip(Get(rows[i], full_key, EmptyStr)) IN
         build_lookup_empty_keys(rows, full_key, i + 1, (k :> rows[i]) @@ lookup)

\* build_lookup that keeps the first row of a key instead of the last
RECURSIVE build_lookup_first(_, _, _, _)
build_lookup_first(rows, full_key, i, lookup) ==
    IF i > Len(rows) THEN lookup
    ELSE LET k == strip(Get(rows[i], full_key, EmptyStr)) IN
         build_lookup_first(rows, full_key, i + 1,
                      IF k # EmptyStr THEN lookup @@ (k :> rows[i]) ELSE lookup)

\* lookup = {}; for row in self.full_rows: ... lookup[k] = row
RECURSIVE build_lookup(_, _, _, _)
build_lookup(rows, full_key, i, lookup) ==
    IF i > Len(rows) THEN lookup
    ELSE LET k == strip(Get(rows[i], full_key, EmptyStr)) IN
         build_lookup(rows, full_key, i + 1,
                      IF k # EmptyStr THEN (k :> rows[i]) @@ lookup ELSE lookup)

\* lookup.get(key_val)
lookup_get(lookup, key_val) ==
    IF key_val \in DOMAIN lookup THEN Some(lookup[key_val]) ELSE None

\* resolve_name with "if" in place of "while": one suffix is tried, unchecked
resolve_name_once(base, write_col, suffix, result_headers) ==
    IF InList(write_col, result_headers) THEN Suffixed(base, suffix) ELSE write_col

\* while write_col in result_headers: write_col = f"{base}_补全{suffix}"; suffix += 1
RECURSIVE resolve_name(_, _, _, _)
resolve_name(base, write_col, suffix, result_headers) ==
    IF InList(write_col, result_headers)
    THEN resolve_name(base, Suffixed(base, suffix), suffix + 1, result_headers)
    ELSE write_col

\* plan_columns that adds a header for every entry, overwriting ones included
RECURSIVE plan_columns_all_append(_, _, _, _)
plan_columns_all_append(active, i, result_headers, col_plan) ==
    IF i > Len(active) THEN [result_headers |-> result_headers, col_plan |-> col_plan]
    ELSE LET src_col == active[i].full_var
             dst_col == active[i].masked_var
             mode == active[i].mode_var
         IN  IF src_col = EmptyStr
             THEN plan_columns_all_append(active, i + 1, result_headers, col_plan)
             ELSE IF dst_col = NewColumn \/ mode = "append"
             THEN LET write_col == resolve_name(src_col, src_col, 1, result_headers) IN
                  plan_columns_all_append(active, i + 1,
                               Append(result_headers, write_col),
                               Append(col_plan, <<src_col, write_col>>))
             ELSE plan_columns_all_append(active, i + 1,
                               Append(result_headers, dst_col),
                               Append(col_plan, <<src_col, dst_col>>))

\* the loop over the active mapping rows that builds result_headers and col_plan
RECURSIVE plan_columns(_, _, _, _)
plan_columns(active, i, result_headers, col_plan) ==
    IF i > Len(active) THEN [result_headers |-> result_headers, col_plan |-> col_plan]
    ELSE LET src_col == active[i].full_var
             dst_col == active[i].masked_var
             mode == active[i].mode_var
         IN  IF src_col = EmptyStr
             THEN plan_columns(active, i + 1, result_headers, col_plan)
             ELSE IF dst_col = NewColumn \/ mode = "append"
             THEN LET write_col == resolve_name(src_col, src_col, 1, result_headers) IN
                  plan_columns(active, i + 1, Append(result_headers, write_col),
                               Append(col_plan, <<src_col, write_col>>))
             ELSE plan_columns(active, i + 1, result_headers,
                               Append(col_plan, <<src_col, dst_col>>))

\* write_columns that leaves the cell as it is when the row did not match
RECURSIVE write_columns_keep(_, _, _, _)
write_columns_keep(new_row, src, col_plan, j) ==
    IF j > Len(col_plan) THEN new_row
    ELSE LET src_col == col_plan[j][1]
             write_col == col_plan[j][2]
             value == IF Truthy(src) THEN Get(src.row, src_col, EmptyStr)
                      ELSE Get(new_row, write_col, EmptyStr)
         IN  write_columns_keep((write_col :> value) @@ new_row, src, col_plan, j + 1)

\* write_columns in which the first pair of a write column wins
RECURSIVE write_columns_first(_, _, _, _)
write_columns_first(new_row, src, col_plan, j) ==
    IF j > Len(col_plan) THEN new_row
    ELSE LET src_col == col_plan[j][1]
             write_col == col_plan[j][2]
             value == IF Truthy(src) THEN Get(src.row, src_col, EmptyStr) ELSE EmptyStr
             written == \E q \in 1..(j - 1) : col_plan[q][2] = write_col
         IN  write_columns_first(
                 IF written THEN new_row ELSE (write_col :> value) @@ new_row,
                 src, col_plan, j + 1)

\* for src_col, write_col in col_plan: new_row[write_col] = ...
RECURSIVE write_columns(_, _, _, _)
write_columns(new_row, src, col_plan, j) ==
    IF j > Len(col_plan) THEN new_row
    ELSE LET src_col == col_plan[j][1]
             write_col == col_plan[j][2]
             value == IF Truthy(src) THEN Get(src.row, src_col, EmptyStr) ELSE EmptyStr
         IN  write_columns((write_col :> value) @@ new_row, src, col_plan, j + 1)

\* generate_rows that emits a row only for a target row that matched
RECURSIVE generate_rows_matched_only(_, _, _, _, _, _)
generate_rows_matched_only(rows, masked_key, lookup, col_plan, i, acc) ==
    IF i > Len(rows) THEN acc
    ELSE LET key_val == strip(Get(rows[i], masked_key, EmptyStr))
             src == lookup_get(lookup, key_val)
             new_row == write_columns(rows[i], src, col_plan, 1)
         IN  generate_rows_matched_only(rows, masked_key, lookup, col_plan, i + 1,
                 IF Truthy(src)
                 THEN [result_rows |-> Append(acc.result_rows, new_row),
                       matched_count |-> acc.matched_count + 1,
                       srcs |-> Append(acc.srcs, src)]
                 ELSE acc)

\* generate_rows that counts a row as matched whenever its key is not empty
RECURSIVE generate_rows_count_keys(_, _, _, _, _, _)
generate_rows_count_keys(rows, masked_key, lookup, col_plan, i, acc) ==
    IF i > Len(rows) THEN acc
    ELSE LET key_val == strip(Get(rows[i], masked_key, EmptyStr))
             src == lookup_get(lookup, key_val)
             new_row == write_columns(rows[i], src, col_plan, 1)
         IN  generate_rows_count_keys(rows, masked_key, lookup, col_plan, i + 1,
                 [result_rows |-> Append(acc.result_rows, new_row),
                  matched_count |-> IF key_val # EmptyStr THEN acc.matched_count + 1
                                    ELSE acc.matched_count,
                  srcs |-> Append(acc.srcs, src)])

\* the loop over self.masked_rows; srcs records the src of every iteration
RECURSIVE generate_rows(_, _, _, _, _, _)
generate_rows(rows, masked_key, lookup, col_plan, i, acc) ==
    IF i > Len(rows) THEN acc
    ELSE LET key_val == strip(Get(rows[i], masked_key, EmptyStr))
             src == lookup_get(lookup, key_val)
             new_row == write_columns(rows[i], src, col_plan, 1)
         IN  generate_rows(rows, masked_key, lookup, col_plan, i + 1,
                 [result_rows |-> Append(acc.result_rows, new_row),
                  matched_count |-> IF Truthy(src) THEN acc.matched_count + 1
                                    ELSE acc.matched_count,
                  srcs |-> Append(acc.srcs, src)])

\* [r for r in self.mapping_rows if r["active"]]
RECURSIVE active_rows(_, _)
active_rows(rows, i) ==
    IF i > Len(rows) THEN <<>>
    ELSE IF rows[i].active THEN <<rows[i]>> \o active_rows(rows, i + 1)
    ELSE active_rows(rows, i + 1)

\* the outcomes of the save dialog and of the writer: no path chosen, the file
\* written (write_xlsx or write_csv, both by result_headers), the writer failed
SaveOutcomes == {"save_cancelled", "exported", "save_failed"}

run ==
    /\ UNCHANGED <<full_headers, full_rows, masked_headers, masked_rows,
                   mapping_rows, full_key_var, masked_key_var,
                   full_key_cb, masked_key_cb, selections>>
    /\ LET full_key == strip(full_key_var)
           masked_key == strip(masked_key_var)
           active == active_rows(mapping_rows, 1)
       IN  IF full_rows = <<>> \/ masked_rows = <<>>
           THEN out' = [kind |-> "warning", text |-> "no lists"]
           ELSE IF full_key = EmptyStr \/ masked_key = EmptyStr
           THEN out' = [kind |-> "warning", text |-> "no key"]
           ELSE IF active = <<>>
           THEN out' = [kind |-> "warning", text |-> "no mapping"]
           ELSE
             LET lookup == build_lookup(full_rows, full_key, 1, <<>>)
                 plan == plan_columns(active, 1, masked_headers, <<>>)
                 gen == generate_rows(masked_rows, masked_key, lookup,
                            plan.col_plan, 1,
                            [result_rows |-> <<>>, matched_count |-> 0, srcs |-> <<>>])
                 total == Len(gen.result_rows)
                 unmatched == total - gen.matched_count
             IN  \E saved \in SaveOutcomes :
                   out' = [kind |-> saved,
                           full_key |-> full_key,
                           masked_key |-> masked_key,
                           result_headers |-> plan.result_headers,
                           col_plan |-> plan.col_plan,
                           result_rows |-> gen.result_rows,
                           srcs |-> gen.srcs,
                           matched_count |-> gen.matched_count,
                           total |-> total,
                           unmatched |-> unmatched]

Next ==
    \/ load_full
    \/ load_masked
    \/ add_mapping_row
    \/ remove_row
    \/ SelectFullKey
    \/ SelectMaskedKey
    \/ SelectSource
    \/ SelectDestination
    \/ SelectMode
    \/ run

Spec == Init /\ [][Next]_vars

(***************************************************************************)
(* A run on its own: the window holds any of the lists below with the key  *)
(* selection a load makes, and up to MaxMappingRows mapping rows in any    *)
(* state the comboboxes and radio buttons can give them.                   *)
(*                                                                         *)
(* A selection made before another list was loaded stays in its StringVar, *)
(* so a row's source and destination may name a column of a list loaded    *)
(* earlier.                                                                *)
(***************************************************************************)
FullLists == {FullA, FullB}
MaskedLists == {MaskedA, MaskedB}
SourceSelections == {EmptyStr, ID, N}
DestinationSelections == {NewColumn, D, N}

RowStates(fh, mh) ==
    {Removed} \cup
    [active : {TRUE},
     full_var : SourceSelections,
     masked_var : DestinationSelections,
     mode_var : {"overwrite", "append"},
     full_cb : {fh},
     masked_cb : {<<NewColumn>> \o mh}]

InitRun ==
    \E f \in FullLists, m \in MaskedLists :
        /\ full_headers = f.headers
        /\ full_rows = f.rows
        /\ full_key_cb = f.headers
        /\ full_key_var = Current0(f.headers, EmptyStr)
        /\ masked_headers = m.headers
        /\ masked_rows = m.rows
        /\ masked_key_cb = m.headers
        /\ masked_key_var = Current0(m.headers, EmptyStr)
        /\ mapping_rows \in UNION {[1..k -> RowStates(f.headers, m.headers)] :
                                      k \in 0..MaxMappingRows}
        /\ selections = 0
        /\ out = Idle

NextRun == run

SpecRun == InitRun /\ [][NextRun]_vars

(***************************************************************************)
(* Properties of a run.  They are stated over the record the run leaves in *)
(* out and over the lists and mapping rows the run read, which it leaves   *)
(* unchanged.                                                              *)
(***************************************************************************)
\* the run reached row generation
Ran == out.kind \in SaveOutcomes

TargetRows == 1..Len(masked_rows)
ReferenceRows == 1..Len(full_rows)
PlanPairs == 1..Len(out.col_plan)

\* the trimmed key value of target row i and of reference row j, under the key
\* column names the run used
TargetKey(i) == strip(Get(masked_rows[i], out.masked_key, EmptyStr))
ReferenceKey(j) == strip(Get(full_rows[j], out.full_key, EmptyStr))

\* target row i matched
Matched(i) == Truthy(out.srcs[i])

\* the columns the plan writes
WriteColumns == {out.col_plan[p][2] : p \in PlanPairs}

\* pair p is the last pair of the plan with its write column
LastWriter(p) ==
    \A q \in PlanPairs : q > p => out.col_plan[q][2] # out.col_plan[p][2]

\* what the pair with source column s writes into output row i
Planned(i, s) ==
    IF Matched(i) /\ s \in DOMAIN out.srcs[i].row THEN out.srcs[i].row[s]
    ELSE EmptyStr

\* the mapping entries that are not inert, in entry order
IsEntry(r) == r.active /\ r.full_var # EmptyStr
Entries == SelectSeq(mapping_rows, IsEntry)
Appends(e) == e.masked_var = NewColumn \/ e.mode_var = "append"
Overwrites(e, d) == e.mode_var = "overwrite" /\ e.masked_var = d

\* the number of appending entries before entry p
AppendsBefore(p) == Cardinality({q \in 1..(p - 1) : Appends(Entries[q])})

\* the output headers built when entry p is processed
HeadersBefore(p) ==
    SubSeq(out.result_headers, 1, Len(masked_headers) + AppendsBefore(p))

\* C1: the output has as many rows as the target list, and output row i is
\* target row i with the planned columns written: every cell of target row i
\* outside the write columns is in output row i, unchanged, and output row i
\* has no column besides those of target row i and the write columns.
C1_RowsKeptInPlace ==
    Ran =>
        /\ Len(out.result_rows) = Len(masked_rows)
        /\ \A i \in TargetRows :
            /\ DOMAIN out.result_rows[i] = DOMAIN masked_rows[i] \cup WriteColumns
            /\ \A c \in DOMAIN masked_rows[i] \ WriteColumns :
                   out.result_rows[i][c] = masked_rows[i][c]

\* a run over a target list with a matched and an unmatched row that differ in
\* a column the plan does not write
C1_Witness ==
    /\ Ran
    /\ \E i, k \in TargetRows :
        /\ Matched(i) /\ ~Matched(k)
        /\ \E c \in DOMAIN masked_rows[i] \ WriteColumns :
               masked_rows[i][c] # masked_rows[k][c]

LastWithKey(k) ==
    LET S == {j \in ReferenceRows : ReferenceKey(j) = k} IN
    CHOOSE j \in S : \A l \in S : l <= j

\* C3: a matched target row takes its values from the last reference row, in
\* input order, that has its trimmed key.
C3_LastReferenceRowWins ==
    Ran =>
        \A i \in TargetRows :
            Matched(i) =>
                /\ \E j \in ReferenceRows : ReferenceKey(j) = TargetKey(i)
                /\ \A p \in PlanPairs :
                       LastWriter(p) =>
                           out.result_rows[i][out.col_plan[p][2]] =
                               Get(full_rows[LastWithKey(TargetKey(i))],
                                   out.col_plan[p][1], EmptyStr)

\* a run in which two reference rows share the key of a target row and differ
\* in a copied column
C3_Witness ==
    /\ Ran
    /\ \E i \in TargetRows, j, l \in ReferenceRows, p \in PlanPairs :
        /\ j < l
        /\ ReferenceKey(j) = TargetKey(i) /\ ReferenceKey(l) = TargetKey(i)
        /\ TargetKey(i) # EmptyStr
        /\ LastWriter(p)
        /\ Get(full_rows[j], out.col_plan[p][1], EmptyStr)
               # Get(full_rows[l], out.col_plan[p][1], EmptyStr)

\* the cells of the target rows outside the write columns are carried over
Carried ==
    \A i \in TargetRows :
        \A c \in DOMAIN masked_rows[i] \ WriteColumns :
            out.result_rows[i][c] = masked_rows[i][c]

\* C4 as stated: every pair of the plan, whatever follows it, has its value in
\* its write column of every output row.
C4_EveryPairWritten ==
    Ran =>
        /\ \A i \in TargetRows : \A p \in PlanPairs :
               out.result_rows[i][out.col_plan[p][2]] = Planned(i, out.col_plan[p][1])
        /\ Carried

\* C4 amended: every pair of the plan that no later pair with the same write
\* column follows has its value in its write column of every output row: the
\* matched reference row's value of the source column when the row matched
\* and the reference row has that column, else the empty string; the cells
\* outside the write columns are carried over unchanged.
C4_LastPairWritten ==
    Ran =>
        /\ \A i \in TargetRows : \A p \in PlanPairs :
               LastWriter(p) =>
                   out.result_rows[i][out.col_plan[p][2]]
                       = Planned(i, out.col_plan[p][1])
        /\ Carried

\* a run with an unmatched row, and a matched row for which two pairs of one
\* write column plan different values
C4_Witness ==
    /\ Ran
    /\ \E i \in TargetRows : ~Matched(i)
    /\ \E i \in TargetRows, p, q \in PlanPairs :
        /\ Matched(i) /\ p < q
        /\ out.col_plan[p][2] = out.col_plan[q][2]
        /\ Planned(i, out.col_plan[p][1]) # Planned(i, out.col_plan[q][1])

\* C5: an appending entry whose source column name is among the headers built
\* so far gets the name with the suffix of the least counter n >= 1 whose
\* suffixed name is not among them (the names of all smaller counters are),
\* and that name is not among the headers built so far.
C5_CollisionSuffixed ==
    Ran =>
        /\ Len(out.col_plan) = Len(Entries)
        /\ \A p \in 1..Len(Entries) :
            LET base == Entries[p].full_var
                write_col == out.col_plan[p][2]
                headers == HeadersBefore(p)
            IN  (Appends(Entries[p]) /\ InList(base, headers)) =>
                    /\ ~InList(write_col, headers)
                    /\ \E n \in 1..Len(headers) :
                        /\ write_col = Suffixed(base, n)
                        /\ \A m \in 1..(n - 1) : InList(Suffixed(base, m), headers)

\* a run in which the name and its first suffixed name are both taken, so the
\* counter goes to 2
C5_Witness ==
    /\ Ran
    /\ Len(out.col_plan) = Len(Entries)
    /\ \E p \in 1..Len(Entries) :
        /\ Appends(Entries[p])
        /\ InList(Entries[p].full_var, HeadersBefore(p))
        /\ InList(Suffixed(Entries[p].full_var, 1), HeadersBefore(p))
        /\ out.col_plan[p][2] = Suffixed(Entries[p].full_var, 2)

\* the entries that append, in entry order
AppendingEntries == {p \in 1..Len(Entries) : Appends(Entries[p])}

\* C6: the output headers are the target headers, in order, followed by one
\* header per appending entry that is not inert, in entry order: the write
\* column of that entry.  Overwriting entries with an explicit destination and
\* entries without a source column add none.
C6_HeadersAppended ==
    Ran =>
        /\ Len(out.col_plan) = Len(Entries)
        /\ Len(out.result_headers) = Len(masked_headers) + Cardinality(AppendingEntries)
        /\ SubSeq(out.result_headers, 1, Len(masked_headers)) = masked_headers
        /\ \A p \in AppendingEntries :
               out.result_headers[Len(masked_headers) + AppendsBefore(p) + 1]
                   = out.col_plan[p][2]

\* a run with an appending entry and an overwriting entry with an explicit
\* destination
C6_Witness ==
    /\ Ran
    /\ \E p, q \in 1..Len(Entries) :
        /\ Appends(Entries[p])
        /\ ~Appends(Entries[q])

\* C7: matched_count + unmatched = total, total is the number of output rows
\* and of target rows, and matched_count is the number of target rows whose
\* lookup succeeded.
C7_CountsAddUp ==
    Ran =>
        /\ out.matched_count + out.unmatched = out.total
        /\ out.total = Len(out.result_rows)
        /\ out.total = Len(masked_rows)
        /\ Len(out.srcs) = Len(masked_rows)
        /\ out.matched_count = Cardinality({i \in TargetRows : Matched(i)})
        /\ 0 <= out.matched_count /\ out.matched_count <= out.total

\* a run with a matched row and an unmatched row whose key is not empty
C7_Witness ==
    /\ Ran
    /\ out.matched_count > 0
    /\ \E i \in TargetRows : ~Matched(i) /\ TargetKey(i) # EmptyStr

\* the entries that overwrite target column d
Overwriters(d) == {p \in 1..Len(Entries) : Overwrites(Entries[p], d)}
Last(S) == CHOOSE p \in S : \A q \in S : q <= p

\* C8: when two or more entries that are not inert overwrite the same column
\* of the target list, the run goes through and that column of every output
\* row holds the value of the last of them in entry order.
C8_LastOverwriteWins ==
    Ran =>
        \A h \in 1..Len(masked_headers) :
            LET d == masked_headers[h] IN
            Cardinality(Overwriters(d)) >= 2 =>
                \A i \in TargetRows :
                    out.result_rows[i][d] = Planned(i, Entries[Last(Overwriters(d))].full_var)

\* a run in which two entries overwrite one target column with different
\* values for a matched row
C8_Witness ==
    /\ Ran
    /\ \E h \in 1..Len(masked_headers) :
        \E p, q \in Overwriters(masked_headers[h]) :
            \E i \in TargetRows :
                /\ p < q
                /\ Matched(i)
                /\ Planned(i, Entries[p].full_var) # Planned(i, Entries[q].full_var)

\* C9: a .csv file that cannot be opened makes the load fail with the I/O
\* error of open(), not with the encoding error.
C9_UnreadableCsvIsIOError ==
    (out.kind = "read_failed" /\ ~Files[out.path].readable) => out.error = OSError

\* the number of occurrences of x in list
Count(x, list) == Cardinality({i \in 1..Len(list) : list[i] = x})

\* C10: after a run, every write column of the plan occurs exactly once in
\* the output headers.
C10_WriteColumnsInHeaders ==
    Ran => \A p \in PlanPairs : Count(out.col_plan[p][2], out.result_headers) = 1

====
